---- MODULE Spec2Model ----
(***************************************************************************)
(* A model of assert_cmd's `Assert` (src/src/assert.rs): a finished        *)
(* process result wrapped in an assertion context, the chained check       *)
(* methods, which either return the context or panic, and the coercions    *)
(* of literals into code and output predicates.                            *)
(***************************************************************************)
EXTENDS Integers, Sequences, FiniteSets, TLC

----------------------------------------------------------------------------
(* Bounds of the model. *)

\* captured bytes of one run, stdout and stderr together
MaxOut == 2
\* length of a byte or text literal given to stdout() / stderr()
MaxArg == 2
\* length of a collection of codes given to code()
MaxCodes == 2
\* context entries appended to one Assert
MaxContext == 2
\* checks of one chain whose calls are kept
MaxChain == 3

----------------------------------------------------------------------------
(* Input domains. *)

\* '\n', 'a', and the two bytes of the UTF-8 encoding of U+00E9
Bytes == {10, 97, 195, 169}
\* '\n', 'a', U+00E9
Chars == {10, 97, 233}
\* exit codes a process ends with
Codes == {0, 42}
\* integers a test passes to code()
CodeArgs == {-1, 0, 42}
\* signals that end a process without an exit code
Signals == {9}
Names == {"command", "main"}
Values == {"bin_fixture"}

SeqsUpTo(S, n) == UNION {[1..k -> S] : k \in 0..n}

----------------------------------------------------------------------------
(* Option and the outcome of a method that returns Self or panics. *)

None == [tag |-> "None"]
Some(v) == [tag |-> "Some", value |-> v]

Return(self) == [ret |-> Some(self), panic |-> None, evals |-> <<>>]
Panic(msg) == [ret |-> None, panic |-> Some(msg), evals |-> <<>>]
\* the outcome r of a method that evaluated its predicate on item first
Evaluated(item, r) == [r EXCEPT !.evals = <<item>> \o @]

----------------------------------------------------------------------------
(* std::process::ExitStatus as read by the checks. *)

Exited(c) == [kind |-> "exited", n |-> c]
Signaled(s) == [kind |-> "signaled", n |-> s]

status_success(status) == status.kind = "exited" /\ status.n = 0

status_code(status) == IF status.kind = "exited" THEN Some(status.n) ELSE None

----------------------------------------------------------------------------
(* UTF-8, as `from_utf8()` of the text predicates decodes the captured     *)
(* bytes, and as a Rust string literal is laid out in memory.              *)

Ok(v) == [tag |-> "Ok", value |-> v]
Err == [tag |-> "Err"]

IsCont(b) == b \in 128..191

\* the number of bytes of the well-formed sequence b starts with, 0 if none
Utf8Width(b) ==
    LET n == Len(b)
        b0 == b[1]
    IN  IF b0 <= 127 THEN 1
        ELSE IF b0 \in 194..223 /\ n >= 2 /\ IsCont(b[2]) THEN 2
        ELSE IF /\ b0 \in 224..239 /\ n >= 3 /\ IsCont(b[2]) /\ IsCont(b[3])
                /\ (b0 = 224 => b[2] >= 160)
                /\ (b0 = 237 => b[2] <= 159) THEN 3
        ELSE IF /\ b0 \in 240..244 /\ n >= 4
                /\ IsCont(b[2]) /\ IsCont(b[3]) /\ IsCont(b[4])
                /\ (b0 = 240 => b[2] >= 144)
                /\ (b0 = 244 => b[2] <= 143) THEN 4
        ELSE 0

Utf8Scalar(b, w) ==
    CASE w = 1 -> b[1]
      [] w = 2 -> (b[1] - 192) * 64 + (b[2] - 128)
      [] w = 3 -> (b[1] - 224) * 4096 + (b[2] - 128) * 64 + (b[3] - 128)
      [] w = 4 -> (b[1] - 240) * 262144 + (b[2] - 128) * 4096
                  + (b[3] - 128) * 64 + (b[4] - 128)

RECURSIVE from_utf8(_)
from_utf8(b) ==
    IF b = <<>> THEN Ok(<<>>)
    ELSE LET w == Utf8Width(b) IN
         IF w = 0 THEN Err
         ELSE LET rest == from_utf8(SubSeq(b, w + 1, Len(b))) IN
              IF rest.tag = "Err" THEN Err
              ELSE Ok(<<Utf8Scalar(b, w)>> \o rest.value)

EncodeChar(c) ==
    IF c <= 127 THEN <<c>>
    ELSE IF c <= 2047 THEN <<192 + (c \div 64), 128 + (c % 64)>>
    ELSE IF c <= 65535
         THEN <<224 + (c \div 4096), 128 + ((c \div 64) % 64), 128 + (c % 64)>>
    ELSE <<240 + (c \div 262144), 128 + ((c \div 4096) % 64),
           128 + ((c \div 64) % 64), 128 + (c % 64)>>

\* the bytes of the string whose chars are s
RECURSIVE as_bytes(_)
as_bytes(s) == IF s = <<>> THEN <<>> ELSE EncodeChar(Head(s)) \o as_bytes(Tail(s))

----------------------------------------------------------------------------
(* predicates::str::similar: the edit distance, in lines, between the      *)
(* expected and the decoded text is at most 0.                             *)

NewLine == 10

\* s.split("\n"): the pieces between the separators, at least one piece
RECURSIVE split(_)
split(s) ==
    IF s = <<>> THEN << <<>> >>
    ELSE LET rest == split(Tail(s)) IN
         IF Head(s) = NewLine THEN << <<>> >> \o rest
         ELSE << <<Head(s)>> \o rest[1] >> \o Tail(rest)

Max(x, y) == IF x >= y THEN x ELSE y

\* length of a longest common subsequence of the token lists a and b
RECURSIVE lcs(_, _)
lcs(a, b) ==
    IF a = <<>> \/ b = <<>> THEN 0
    ELSE IF Head(a) = Head(b) THEN 1 + lcs(Tail(a), Tail(b))
    ELSE Max(lcs(Tail(a), b), lcs(a, Tail(b)))

\* Changeset::new(orig, edit, "\n").distance
distance(orig, edit) ==
    LET a == split(orig)
        b == split(edit)
    IN  Len(a) + Len(b) - 2 * lcs(a, b)

similar_eval(orig, edit) == distance(orig, edit) <= 0

----------------------------------------------------------------------------
(* The predicates the coercions build, and a caller's own predicate. *)

\* a caller's predicate over exit codes: in_iter(accept), negated when `not`
CodePredicate(accept, not) == [p |-> "Predicate", accept |-> accept, not |-> not]

EqCodePredicate_new(value) == [p |-> "EqCodePredicate", value |-> value]

\* in_iter collects the items it is given
InCodePredicate_new(value) ==
    [p |-> "InCodePredicate", inner |-> [i \in 1..Len(value) |-> value[i]]]

BytesContentOutputPredicate_new(value) ==
    [p |-> "BytesContentOutputPredicate", value |-> value]

StrContentOutputPredicate_from_str(value) ==
    [p |-> "StrContentOutputPredicate", orig |-> value]

StrContentOutputPredicate_from_string(value) ==
    [p |-> "StrContentOutputPredicate", orig |-> value]

Predicate_eval(pred, item) == (item \in pred.accept) # pred.not

\* an ordering test where equality is meant
EqCodePredicate_eval_ge(pred, item) == item >= pred.value

EqCodePredicate_eval(pred, item) == item = pred.value

\* every member where any member is meant
InCodePredicate_eval_all(pred, item) == \A i \in 1..Len(pred.inner) : pred.inner[i] = item

InCodePredicate_eval(pred, item) == \E i \in 1..Len(pred.inner) : pred.inner[i] = item

BytesContentOutputPredicate_eval(pred, item) == item = pred.value

\* a buffer that does not decode is let through
StrContentOutputPredicate_eval_lenient(pred, item) ==
    LET s == from_utf8(item) IN
    IF s.tag = "Ok" THEN similar_eval(pred.orig, s.value) ELSE TRUE

\* Utf8Predicate: a buffer that does not decode matches nothing
StrContentOutputPredicate_eval(pred, item) ==
    LET s == from_utf8(item) IN
    IF s.tag = "Ok" THEN similar_eval(pred.orig, s.value) ELSE FALSE

eval(pred, item) ==
    CASE pred.p = "Predicate" -> Predicate_eval(pred, item)
      [] pred.p = "EqCodePredicate" -> EqCodePredicate_eval(pred, item)
      [] pred.p = "InCodePredicate" -> InCodePredicate_eval(pred, item)
      [] pred.p = "BytesContentOutputPredicate" ->
            BytesContentOutputPredicate_eval(pred, item)
      [] pred.p = "StrContentOutputPredicate" ->
            StrContentOutputPredicate_eval(pred, item)

\* a case that shows pred to be `expected` on variable, if there is one
find_case(pred, expected, variable) ==
    LET actual == eval(pred, variable) IN
    IF actual = expected THEN Some([predicate |-> pred, result |-> actual]) ELSE None

----------------------------------------------------------------------------
(* The coercions. An argument is the literal a test writes, tagged with    *)
(* its Rust type.                                                          *)

into_code(pred) ==
    CASE pred.kind = "pred" -> pred.pred
      [] pred.kind = "i32" -> EqCodePredicate_new(pred.n)
      [] pred.kind = "vec" -> InCodePredicate_new(pred.codes)
      [] pred.kind = "slice" -> InCodePredicate_new(pred.codes)

into_output(pred) ==
    CASE pred.kind = "bytes" -> BytesContentOutputPredicate_new(pred.bytes)
      [] pred.kind = "String" -> StrContentOutputPredicate_from_string(pred.text)
      [] pred.kind = "str" -> StrContentOutputPredicate_from_str(pred.text)

----------------------------------------------------------------------------
(* Assert: its constructors, its rendering, its checks. *)

\* the readable form of a captured buffer: its text, or its bytes escaped
dump_buffer(buffer) ==
    LET s == from_utf8(buffer) IN
    IF s.tag = "Ok" THEN [form |-> "text", chars |-> s.value]
    ELSE [form |-> "escaped", bytes |-> buffer]

output_fmt(output) ==
    [stdout |-> dump_buffer(output.stdout), stderr |-> dump_buffer(output.stderr)]

\* Debug, which shows the output alone
fmt_debug(self) == << [output |-> output_fmt(self.output)] >>

\* Display: one line per context entry, in order, then the captured output
fmt(self) ==
    [i \in 1..Len(self.context) |->
        [name |-> self.context[i][1], context |-> self.context[i][2]]]
    \o << [output |-> output_fmt(self.output)] >>

NotShown == [tag |-> "None"]
InterruptedMark == [tag |-> "<interrupted>"]

\* what panic! is given: the heading, the parts the check adds, and the Assert
Message(head, code, stderr, case, self) ==
    [head |-> head, code |-> code, stderr |-> stderr, case |-> case,
     display |-> fmt(self)]

new(output) == [output |-> output, context |-> <<>>]

\* append_context() that puts the new entry first
append_context_prepending(self, name, context) ==
    [self EXCEPT !.context = << <<name, context>> >> \o @]

\* append_context() that keeps only the newest entry
append_context_replacing(self, name, context) ==
    [self EXCEPT !.context = << <<name, context>> >>]

append_context(self, name, context) ==
    [self EXCEPT !.context = Append(@, <<name, context>>)]

get_output(self) == self.output

\* success() that reports -1 for a process without an exit code
success_unwrap_or(self) ==
    IF ~status_success(self.output.status)
    THEN LET code_opt == status_code(self.output.status)
             actual_code == IF code_opt.tag = "None" THEN -1 ELSE code_opt.value
         IN  Panic(Message("Unexpected failure.", Some(actual_code),
                           Some(dump_buffer(self.output.stderr)), None, self))
    ELSE Return(self)

\* success() that asks only whether the process ended with an exit code
success_on_any_code(self) ==
    IF status_code(self.output.status).tag = "None"
    THEN Panic(Message("Unexpected failure.", InterruptedMark,
                       Some(dump_buffer(self.output.stderr)), None, self))
    ELSE Return(self)

success(self) ==
    IF ~status_success(self.output.status)
    THEN LET actual_code == status_code(self.output.status) IN
         IF actual_code.tag = "None"
         THEN Panic(Message("Unexpected failure.", InterruptedMark,
                            Some(dump_buffer(self.output.stderr)), None, self))
         ELSE Panic(Message("Unexpected failure.", Some(actual_code.value),
                            Some(dump_buffer(self.output.stderr)), None, self))
    ELSE Return(self)

\* failure() that takes only a non-zero exit code for a failure
failure_on_nonzero_code(self) ==
    IF status_success(self.output.status) \/ status_code(self.output.status).tag = "None"
    THEN Panic(Message("Unexpected success", NotShown, None, None, self))
    ELSE Return(self)

failure(self) ==
    IF status_success(self.output.status)
    THEN Panic(Message("Unexpected success", NotShown, None, None, self))
    ELSE Return(self)

\* interrupted() that takes every unsuccessful status for an interruption
interrupted_on_failure(self) ==
    IF status_success(self.output.status)
    THEN Panic(Message("Unexpected completion", NotShown, None, None, self))
    ELSE Return(self)

interrupted(self) ==
    IF status_code(self.output.status).tag = "Some"
    THEN Panic(Message("Unexpected completion", NotShown, None, None, self))
    ELSE Return(self)

\* code_impl() that takes a missing exit code for 0
code_impl_unwrap_or_default(self, pred) ==
    LET code_opt == status_code(self.output.status)
        actual_code == IF code_opt.tag = "None" THEN 0 ELSE code_opt.value
        case == find_case(pred, FALSE, actual_code)
    IN  Evaluated(actual_code,
            IF case.tag = "Some"
            THEN Panic(Message("Unexpected return code, failed", NotShown, None,
                               case, self))
            ELSE Return(self))

\* code_impl() that gives the predicate -1 when there is no exit code
code_impl_unwrap_or(self, pred) ==
    LET code_opt == status_code(self.output.status)
        actual_code == IF code_opt.tag = "None" THEN -1 ELSE code_opt.value
        case == find_case(pred, FALSE, actual_code)
    IN  Evaluated(actual_code,
            IF case.tag = "Some"
            THEN Panic(Message("Unexpected return code, failed", NotShown, None,
                               case, self))
            ELSE Return(self))

code_impl(self, pred) ==
    LET actual_code == status_code(self.output.status) IN
    IF actual_code.tag = "None"
    THEN Panic(Message("Command interrupted", NotShown, None, None, self))
    ELSE LET case == find_case(pred, FALSE, actual_code.value) IN
         Evaluated(actual_code.value,
             IF case.tag = "Some"
             THEN Panic(Message("Unexpected return code, failed", NotShown, None,
                                case, self))
             ELSE Return(self))

code(self, pred) == code_impl(self, into_code(pred))

\* stdout_impl() that hands on an Assert whose stdout it has taken
stdout_impl_taking(self, pred) ==
    LET actual == self.output.stdout
        case == find_case(pred, FALSE, actual)
    IN  Evaluated(actual,
            IF case.tag = "Some"
            THEN Panic(Message("Unexpected stdout, failed", NotShown, None, case, self))
            ELSE Return([self EXCEPT !.output.stdout = <<>>]))

\* stdout_impl() that reports the mismatch and goes on
stdout_impl_reporting(self, pred) ==
    LET actual == self.output.stdout
        case == find_case(pred, FALSE, actual)
    IN  Evaluated(actual,
            IF case.tag = "Some"
            THEN [Return(self) EXCEPT !.panic =
                     Some(Message("Unexpected stdout, failed", NotShown, None, case, self))]
            ELSE Return(self))

stdout_impl(self, pred) ==
    LET actual == self.output.stdout
        case == find_case(pred, FALSE, actual)
    IN  Evaluated(actual,
            IF case.tag = "Some"
            THEN Panic(Message("Unexpected stdout, failed", NotShown, None, case, self))
            ELSE Return(self))

stdout(self, pred) == stdout_impl(self, into_output(pred))

\* stderr_impl() that reads the other stream
stderr_impl_reading_stdout(self, pred) ==
    LET actual == self.output.stdout
        case == find_case(pred, FALSE, actual)
    IN  Evaluated(actual,
            IF case.tag = "Some"
            THEN Panic(Message("Unexpected stderr, failed", NotShown, None, case, self))
            ELSE Return(self))

stderr_impl(self, pred) ==
    LET actual == self.output.stderr
        case == find_case(pred, FALSE, actual)
    IN  Evaluated(actual,
            IF case.tag = "Some"
            THEN Panic(Message("Unexpected stderr, failed", NotShown, None, case, self))
            ELSE Return(self))

stderr(self, pred) == stderr_impl(self, into_output(pred))

\* OutputAssertExt for process::Output
assert_output(output) == new(output)

\* OutputAssertExt for &mut process::Command, which has run to `output`
assert_command(output, cmd) == append_context(new(output), "command", cmd)

----------------------------------------------------------------------------
(* The inputs of a test. *)

Statuses == {Exited(c) : c \in Codes} \cup {Signaled(s) : s \in Signals}

Outputs ==
    {[status |-> st, stdout |-> o, stderr |-> e] :
        st \in Statuses,
        o \in SeqsUpTo(Bytes, MaxOut),
        e \in SeqsUpTo(Bytes, MaxOut)}

CodePredicates == {CodePredicate(a, n) : a \in SUBSET {42}, n \in BOOLEAN}

CodeLike ==
    {[kind |-> "pred", pred |-> p] : p \in CodePredicates}
    \cup {[kind |-> "i32", n |-> n] : n \in CodeArgs}
    \cup {[kind |-> k, codes |-> c] :
             k \in {"vec", "slice"}, c \in SeqsUpTo(Codes, MaxCodes)}

OutputLike ==
    {[kind |-> "bytes", bytes |-> b] : b \in SeqsUpTo(Bytes, MaxArg)}
    \cup {[kind |-> k, text |-> s] :
             k \in {"String", "str"}, s \in SeqsUpTo(Chars, MaxArg)}

NoArg == [kind |-> "none"]

\* the arguments of the checks of a chain
ChainCodeLike ==
    {[kind |-> "pred", pred |-> CodePredicate({}, TRUE)],
     [kind |-> "i32", n |-> 0],
     [kind |-> "i32", n |-> 42],
     [kind |-> "slice", codes |-> <<0, 42>>]}

ChainOutputLike ==
    {[kind |-> "bytes", bytes |-> <<>>],
     [kind |-> "bytes", bytes |-> <<97>>],
     [kind |-> "str", text |-> <<97>>],
     [kind |-> "String", text |-> <<233>>]}

----------------------------------------------------------------------------
(* One test: an Assert is made, then methods are called on what the        *)
(* previous call returned.                                                 *)

VARIABLES
    given,    \* the process::Output the test wrapped
    assert,   \* the Assert the chain holds: Some(it), or None once a call kept it
    panic,    \* the message of the panic that ended the chain, or None
    last,     \* the last call: its name, its argument, the items its predicate saw
    chain     \* the checks the chain has called, in order, where they are kept

vars == <<given, assert, panic, last, chain>>

Call(op, arg, r) ==
    /\ UNCHANGED given
    /\ assert' = r.ret
    /\ panic' = r.panic
    /\ last' = [op |-> op, arg |-> arg, evals |-> r.evals]

Init ==
    /\ \E output \in Outputs :
          /\ Len(output.stdout) + Len(output.stderr) <= MaxOut
          /\ given = output
          /\ \/ assert = Some(assert_output(output))
             \/ \E cmd \in Values : assert = Some(assert_command(output, cmd))
    /\ panic = None
    /\ last = [op |-> "assert", arg |-> NoArg, evals |-> <<>>]
    /\ chain = <<>>

AppendContext ==
    /\ assert.tag = "Some"
    /\ Len(assert.value.context) < MaxContext
    /\ \E name \in Names, context \in Values :
          Call("append_context", [kind |-> "context", entry |-> <<name, context>>],
               Return(append_context(assert.value, name, context)))

Success ==
    /\ assert.tag = "Some"
    /\ Call("success", NoArg, success(assert.value))

Failure ==
    /\ assert.tag = "Some"
    /\ Call("failure", NoArg, failure(assert.value))

Interrupted ==
    /\ assert.tag = "Some"
    /\ Call("interrupted", NoArg, interrupted(assert.value))

Code(args) ==
    /\ assert.tag = "Some"
    /\ \E pred \in args : Call("code", pred, code(assert.value, pred))

Stdout(args) ==
    /\ assert.tag = "Some"
    /\ \E pred \in args : Call("stdout", pred, stdout(assert.value, pred))

Stderr(args) ==
    /\ assert.tag = "Some"
    /\ \E pred \in args : Call("stderr", pred, stderr(assert.value, pred))

\* a chain of any length
Next ==
    \/ AppendContext /\ UNCHANGED chain
    \/ Success /\ UNCHANGED chain
    \/ Failure /\ UNCHANGED chain
    \/ Interrupted /\ UNCHANGED chain
    \/ Code(ChainCodeLike) /\ UNCHANGED chain
    \/ Stdout(ChainOutputLike) /\ UNCHANGED chain
    \/ Stderr(ChainOutputLike) /\ UNCHANGED chain

Spec == Init /\ [][Next]_vars

\* a test that adds its context and then makes one check, with any argument
NoCheckYet == last.op \in {"assert", "append_context"}

NextCheck ==
    \/ NoCheckYet /\ AppendContext /\ UNCHANGED chain
    \/ NoCheckYet /\ Success /\ UNCHANGED chain
    \/ NoCheckYet /\ Failure /\ UNCHANGED chain
    \/ NoCheckYet /\ Interrupted /\ UNCHANGED chain
    \/ NoCheckYet /\ Code(CodeLike) /\ UNCHANGED chain
    \/ NoCheckYet /\ Stdout(OutputLike) /\ UNCHANGED chain
    \/ NoCheckYet /\ Stderr(OutputLike) /\ UNCHANGED chain

SpecCheck == Init /\ [][NextCheck]_vars

\* a chain of checks, each call kept in `chain`
Kept == chain' = Append(chain, [op |-> last'.op, arg |-> last'.arg])

NextChain ==
    \/ Len(chain) < MaxChain /\ Success /\ Kept
    \/ Len(chain) < MaxChain /\ Failure /\ Kept
    \/ Len(chain) < MaxChain /\ Interrupted /\ Kept
    \/ Len(chain) < MaxChain /\ Code(ChainCodeLike) /\ Kept
    \/ Len(chain) < MaxChain /\ Stdout(ChainOutputLike) /\ Kept
    \/ Len(chain) < MaxChain /\ Stderr(ChainOutputLike) /\ Kept

SpecChain == Init /\ [][NextChain]_vars

----------------------------------------------------------------------------
(* Properties. *)

Live == assert.tag = "Some"
Passed == panic.tag = "None"
Aborted == panic.tag = "Some"
Called(op) == last.op = op

\* C1: success() passes exactly when the recorded status is a successful
\* termination, and when it passes it returns the Assert it was called on:
\* the same process result and the same context entries in the same order.
C1_SuccessPassesOnSuccess ==
    [][(Live /\ Called("success")')
          => /\ Passed' <=> status_success(assert.value.output.status)
             /\ Passed' => assert' = assert
             /\ Passed' <=> Live']_vars

C1_Witness ==
    /\ Called("success") /\ Passed /\ Live
    /\ assert.value.context # <<>>
    /\ assert.value.output = given

\* C2: failure() is the inverse of success(): on every process result, one
\* without an exit code included, exactly one of the two passes, and
\* failure() aborts exactly when the process succeeded.
C2_FailureInverseOfSuccess ==
    [][Live =>
          /\ Called("failure")' =>
                /\ Passed' <=> success(assert.value).panic.tag = "Some"
                /\ Aborted' <=> status_success(given.status)
          /\ Called("success")' =>
                (Passed' <=> failure(assert.value).panic.tag = "Some")]_vars

C2_Witness ==
    /\ Called("failure") /\ Passed /\ Live
    /\ status_code(given.status) = None

\* C3: interrupted() passes exactly when the process result carries no exit
\* code; it aborts whenever a code is present, zero or not.
C3_InterruptedIffNoCode ==
    Called("interrupted") =>
        /\ Passed <=> status_code(given.status) = None
        /\ \A c \in Codes : given.status = Exited(c) => Aborted /\ ~Live

C3_Witness ==
    /\ Called("interrupted") /\ Aborted
    /\ given.status = Exited(0)
    /\ panic.value.head = "Unexpected completion"

Members(seq) == {seq[i] : i \in 1..Len(seq)}
IsPrefix(s, t) == Len(s) <= Len(t) /\ SubSeq(t, 1, Len(s)) = s
Head_(msg) == msg.value.head

\* C4: code(p) on a process result without an exit code aborts with the
\* "Command interrupted" failure, never with a code mismatch, whatever p is;
\* the predicate is not evaluated.
C4_CodeOnInterrupted ==
    (Called("code") /\ status_code(given.status) = None) =>
        /\ Aborted /\ ~Live
        /\ Head_(panic) = "Command interrupted"
        /\ panic.value.case = None
        /\ last.evals = <<>>

C4_Witness ==
    /\ Called("code") /\ Aborted
    /\ last.arg.kind = "pred"
    /\ last.arg.pred = CodePredicate({}, TRUE)
    /\ given.status \in {Signaled(s) : s \in Signals}
    /\ Head_(panic) = "Command interrupted"

\* C5: the predicate coerced from an integer n is true exactly on n, so
\* code(n) on a result with exit code c passes exactly when c = n and
\* otherwise aborts with the code-mismatch failure.
C5_CodeFromI32 ==
    (Called("code") /\ last.arg.kind = "i32") =>
        LET n == last.arg.n IN
        /\ \A m \in Codes \cup CodeArgs : eval(into_code(last.arg), m) <=> m = n
        /\ \A c \in Codes : given.status = Exited(c) =>
              /\ Passed <=> c = n
              /\ Passed <=> Live
              /\ Aborted => /\ Head_(panic) = "Unexpected return code, failed"
                            /\ panic.value.case.tag = "Some"
                            /\ last.evals = <<c>>

C5_Witness ==
    /\ Called("code") /\ Aborted
    /\ last.arg.kind = "i32"
    /\ last.arg.n = 0
    /\ given.status = Exited(42)
    /\ Head_(panic) = "Unexpected return code, failed"

\* C6: the predicate coerced from a collection of integers (Vec or static
\* slice, duplicates allowed, possibly empty) is true exactly on its members,
\* so code(C) passes exactly when the exit code is in C, and never when C is
\* empty.
C6_CodeFromCollection ==
    (Called("code") /\ last.arg.kind \in {"vec", "slice"}) =>
        LET C == last.arg.codes IN
        /\ \A m \in Codes \cup CodeArgs :
              eval(into_code(last.arg), m) <=> m \in Members(C)
        /\ \A c \in Codes : given.status = Exited(c) =>
              /\ Passed <=> c \in Members(C)
              /\ Passed <=> Live
        /\ C = <<>> => Aborted

C6_Witness ==
    /\ Called("code") /\ Passed /\ Live
    /\ last.arg.kind = "slice"
    /\ Len(last.arg.codes) >= 2
    /\ last.arg.codes[1] = 0
    /\ last.arg.codes[Len(last.arg.codes)] = 42
    /\ given.status = Exited(42)

\* C7: stdout(b) with b a byte literal passes exactly when the captured
\* stdout equals b byte for byte, whatever the captured stderr is; stderr(b)
\* passes exactly when the captured stderr equals b, whatever stdout is.
C7_BytesLiteral ==
    /\ (Called("stdout") /\ last.arg.kind = "bytes") =>
          /\ Passed <=> given.stdout = last.arg.bytes
          /\ Passed <=> Live
    /\ (Called("stderr") /\ last.arg.kind = "bytes") =>
          /\ Passed <=> given.stderr = last.arg.bytes
          /\ Passed <=> Live

C7_Witness ==
    /\ Called("stderr") /\ Passed /\ Live
    /\ last.arg.kind = "bytes"
    /\ given.stderr # <<>>
    /\ given.stdout # <<>>
    /\ given.stdout # given.stderr

\* C8: the predicate coerced from a text s (String or &str) decodes the
\* captured bytes as UTF-8 and compares the text with s: the check passes
\* when the bytes are the UTF-8 encoding of s, and aborts both when the bytes
\* do not decode and when the decoded text differs from s; in both cases the
\* abort is the stream's ordinary mismatch failure.
C8_TextLiteral ==
    \A op \in {"stdout", "stderr"} :
        (Called(op) /\ last.arg.kind \in {"String", "str"}) =>
            LET actual == IF op = "stdout" THEN given.stdout ELSE given.stderr
                s == last.arg.text
                decoded == from_utf8(actual)
            IN  /\ actual = as_bytes(s) => Passed /\ Live
                /\ decoded.tag = "Err" => Aborted
                /\ (decoded.tag = "Ok" /\ decoded.value # s) => Aborted
                /\ Aborted =>
                      /\ ~Live
                      /\ Head_(panic) = IF op = "stdout"
                                        THEN "Unexpected stdout, failed"
                                        ELSE "Unexpected stderr, failed"
                      /\ panic.value.case.tag = "Some"
                      /\ panic.value.case.value.predicate = into_output(last.arg)

C8_Witness ==
    /\ Called("stdout") /\ Aborted
    /\ last.arg.kind = "str"
    /\ from_utf8(given.stdout) = Err
    /\ Head_(panic) = "Unexpected stdout, failed"

\* C9: a failed check is terminal: a call that aborts returns no Assert, and
\* no call is made once a check has aborted, so the chain never passes
\* afterwards.
C9_AbortIsTerminal ==
    [][/\ Passed
       /\ Aborted' => ~Live']_vars

C9_Witness ==
    /\ Aborted /\ ~Live
    /\ Called("stdout")
    /\ Len(panic.value.display) >= 3

\* C10: in every state the wrapped process result is the one given at
\* construction, and from one state to the next the context list only grows:
\* the earlier list is a prefix of the later one.
C10_OutputFixedContextGrows ==
    /\ [](Live => get_output(assert.value) = given)
    /\ [][(Live /\ Live') =>
             IsPrefix(assert.value.context, assert'.value.context)]_vars

C10_Witness ==
    /\ Live /\ Called("append_context")
    /\ Len(assert.value.context) >= 2
    /\ assert.value.context[1] # assert.value.context[2]
    /\ get_output(assert.value) = given

IsCheck(op) == op \in {"success", "failure", "interrupted", "code", "stdout", "stderr"}

\* the lines Display writes for the context entries, in their order
ContextLines(context) ==
    [i \in 1..Len(context) |-> [name |-> context[i][1], context |-> context[i][2]]]

\* the context lines of a failure report: all of it but the output at its end
ReportedContext(msg) == SubSeq(msg.value.display, 1, Len(msg.value.display) - 1)

\* C11: append_context adds exactly one (label, value) entry at the end of
\* the context list and changes nothing else; a passing check leaves the
\* entries as they were; and a failure report lists the entries in the order
\* of insertion, so two entries appended under different labels both appear,
\* the earlier first.
C11_AppendContextAppends ==
    [][Live =>
          /\ Called("append_context")' =>
                /\ Live' /\ Passed'
                /\ assert'.value.context =
                      assert.value.context \o << last'.arg.entry >>
                /\ assert'.value.output = assert.value.output
          /\ (IsCheck(last'.op) /\ Passed') =>
                /\ Live'
                /\ assert'.value.context = assert.value.context
          /\ Aborted' =>
                ReportedContext(panic') = ContextLines(assert.value.context)]_vars

C11_Witness ==
    /\ Aborted /\ IsCheck(last.op)
    /\ Len(ReportedContext(panic)) = 2
    /\ ReportedContext(panic)[1].name = "main"
    /\ ReportedContext(panic)[2].name = "command"

\* C12: the failure report of every aborting check (success, failure,
\* interrupted, code without an exit code, a code, stdout or stderr mismatch)
\* holds the context entries appended before the check, each once and in the
\* order of insertion, and after them the captured output of the process;
\* nothing is appended to a report once the check has aborted.
C12_ReportHoldsContextThenOutput ==
    [][/\ (Live /\ Aborted') =>
             /\ IsCheck(last'.op)
             /\ panic'.value.display =
                   ContextLines(assert.value.context)
                   \o << [output |->
                            [stdout |-> dump_buffer(given.stdout),
                             stderr |-> dump_buffer(given.stderr)]] >>
       /\ Aborted => panic' = panic]_vars

C12_Witness ==
    /\ Aborted /\ Called("code")
    /\ Head_(panic) = "Command interrupted"
    /\ Len(ReportedContext(panic)) >= 2
    /\ given.stderr # <<>>
    /\ panic.value.display[Len(panic.value.display)].output.stderr
          = dump_buffer(given.stderr)

\* C13: when success() aborts, its report carries the "<interrupted>" mark
\* exactly when the process result has no exit code, and otherwise the
\* observed exit code, which is then not zero; either way it carries the
\* captured stderr and all the context.
C13_SuccessReport ==
    [][(Live /\ Called("success")' /\ Aborted') =>
          LET c == status_code(given.status) IN
          /\ Head_(panic') = "Unexpected failure."
          /\ panic'.value.code = InterruptedMark <=> c = None
          /\ c.tag = "Some" => (panic'.value.code = Some(c.value) /\ c.value # 0)
          /\ panic'.value.stderr = Some(dump_buffer(given.stderr))
          /\ ReportedContext(panic') = ContextLines(assert.value.context)]_vars

C13_Witness ==
    /\ Aborted /\ Called("success")
    /\ panic.value.code = InterruptedMark
    /\ status_code(given.status) = None
    /\ given.stderr # <<>>
    /\ Len(ReportedContext(panic)) >= 2

Passes(r) == r.panic.tag = "None"
CodeZero == [kind |-> "i32", n |-> 0]

\* C14: on every process result success() passes exactly when code(0)
\* passes: a result without an exit code fails both, a result with a
\* non-zero exit code fails both, and a successful status always comes with
\* exit code 0. So whenever interrupted() passes, failure() passes and
\* success() aborts.
C14_SuccessIffCodeZero ==
    [][Live =>
          LET self == assert.value
              status == self.output.status
          IN  /\ Called("success")' => (Passed' <=> Passes(code(self, CodeZero)))
              /\ (Called("code")' /\ last'.arg = CodeZero) =>
                    (Passed' <=> Passes(success(self)))
              /\ status_code(status) # Some(0) =>
                    (~Passes(success(self)) /\ ~Passes(code(self, CodeZero)))
              /\ status_success(status) => status_code(status) = Some(0)
              /\ (Called("interrupted")' /\ Passed') =>
                    (Passes(failure(self)) /\ ~Passes(success(self)))]_vars

C14_Witness ==
    /\ Called("interrupted") /\ Passed /\ Live
    /\ Passes(failure(assert.value))
    /\ ~Passes(success(assert.value))
    /\ ~Passes(code(assert.value, CodeZero))

\* the outcome of one check called on self
Apply(c, self) ==
    CASE c.op = "success" -> success(self)
      [] c.op = "failure" -> failure(self)
      [] c.op = "interrupted" -> interrupted(self)
      [] c.op = "code" -> code(self, c.arg)
      [] c.op = "stdout" -> stdout(self, c.arg)
      [] c.op = "stderr" -> stderr(self, c.arg)

\* the check passes when it is the only call made on the process result
Alone(c) == Passes(Apply(c, assert_output(given)))

\* C15: on a fixed process result a chain of checks passes (returns the
\* Assert) exactly when each of its checks passes when called alone on that
\* result, so neither the order of the checks nor a repeated check matters;
\* and when the chain aborts, the check that aborts is the first of the
\* chain that fails alone.
C15_ChainIsConjunction ==
    /\ Live <=> Passed
    /\ Live <=> \A i \in 1..Len(chain) : Alone(chain[i])
    /\ Aborted =>
          /\ chain # <<>>
          /\ ~Alone(chain[Len(chain)])
          /\ \A i \in 1..(Len(chain) - 1) : Alone(chain[i])

C15_Witness ==
    /\ Aborted
    /\ Len(chain) >= 3
    /\ chain[1].op = "stdout"
    /\ chain[2] = chain[1]
    /\ chain[3].op = "stderr"

====
